---- MODULE Spec2Model ----
(***************************************************************************)
(* A model of link-processor (src/main.py): POST /create-link issues a     *)
(* signed, time-limited token; GET /redirect/{token}?state=... verifies    *)
(* it, consults a Redis set for deduplication and, on a first visit,       *)
(* schedules a delayed callback.                                           *)
(*                                                                         *)
(* Conventions.                                                            *)
(*  - Time is counted in whole seconds (`now`).                            *)
(*  - Strings that are concatenated by the code (base URL, redirect URL)   *)
(*    are sequences of one-character strings, so that concatenation is     *)
(*    real concatenation.                                                  *)
(*  - A token is the record of its three dot-separated segments: the       *)
(*    header (alg), the payload (callback_url, seconds, redirect_url,      *)
(*    exp) and the signature.  The signature segment is the MAC plus       *)
(*    `slack`: the two low bits of its last base64url character, which     *)
(*    the encoder writes as 0 and the decoder discards (256 bits occupy    *)
(*    43 characters = 258 bits).                                           *)
(*  - HMAC-SHA256 and SHA-256 are ideal: injective tags of their input.    *)
(*  - One handler runs without interruption between two awaits; every      *)
(*    await on the Redis client is a separate step, and may raise.         *)
(***************************************************************************)
EXTENDS Integers, Sequences, FiniteSets, TLC

VARIABLES
    now,           \* wall clock, seconds
    ticks,         \* how many times the clock has advanced
    redis_client,  \* main.py:25  "None" | "Redis"
    store,         \* Redis: key -> set of members (absent key = {})
    expiry,        \* Redis: key -> absolute expiry time, or NoExpiry
    purges,        \* history: key -> how many times Redis expired it
    touched,       \* history: key -> time of the last SADD or EXPIRE on it
    links,         \* history: the links issued by create_link
    created,       \* the last response of POST /create-link
    reqs,          \* GET /redirect requests: id -> handler state
    jobs           \* background tasks: id -> schedule_callback state

vars == <<now, ticks, redis_client, store, expiry, purges, touched, links, created, reqs, jobs>>

----------------------------------------------------------------------------
(* Bounds of the model *)

MaxReq == 2
MaxSolo == 1
MaxLinks == 1
MaxPair == 2
MaxTicks == 2

(* Program constants *)

SECRET_KEY == "default-key-please-change"
ALGORITHM == "HS256"
VISITED_TTL_SECONDS == 30 * 24 * 60 * 60
TokenLifetime == 30 * 24 * 60 * 60
MaxSeconds == 3600

----------------------------------------------------------------------------
(* Values *)

None == <<>>
NoState == "<None>"
NoExpiry == -1
ReqIds == 1..MaxReq

(* Inputs the environment may send.  URLs are sequences of characters. *)
cb1 == <<"c", "1">>
cb2 == <<"c", "2">>
d1 == <<"d">>
d2 == <<"d", "|", "d">>
Callbacks == {cb1, cb2}
RedirectUrls == {d1, d2}
States == {"s1", "s2"}
SecondsInputs == {-1, 0, 1, 3600, 3601}
TickSteps == {1, VISITED_TTL_SECONDS - 1}

(* Request headers / URL as seen by get_base_url.  An absent header is the
   empty string (both are falsy in the code); an absent port is 0. *)
HdrDirect == [xfp |-> None, xfh |-> None, host |-> <<"o">>,
              scheme |-> <<"h">>, hostname |-> <<"o">>, port |-> 0]
HdrProxied == [xfp |-> <<"h">>, xfh |-> <<"o", "|", "d">>, host |-> <<"i">>,
               scheme |-> <<"h">>, hostname |-> <<"i">>, port |-> 0]
HdrNoHost == [xfp |-> <<"h">>, xfh |-> None, host |-> None,
              scheme |-> <<"h">>, hostname |-> <<"o">>, port |-> 8000]
HdrBare == [xfp |-> None, xfh |-> None, host |-> None,
            scheme |-> <<"h">>, hostname |-> <<"o">>, port |-> 0]
AllHeaders == {HdrDirect, HdrProxied, HdrNoHost, HdrBare}

Bodies(cbs, secs, urls, sts) ==
    [callback_url : cbs, seconds : secs, redirect_url : urls, state : sts]

----------------------------------------------------------------------------
(* main.py:60-78 *)
get_base_url(request) ==
    IF request.xfp # None /\ request.xfh # None
    THEN request.xfp \o <<"://">> \o request.xfh
    ELSE IF request.host # None
    THEN request.scheme \o <<"://">> \o request.host
    ELSE IF request.port # 0
    THEN request.scheme \o <<"://">> \o request.hostname
             \o <<":">> \o <<ToString(request.port)>>
    ELSE request.scheme \o <<"://">> \o request.hostname

(* hashlib.sha256(...).hexdigest(): an ideal hash, injective on its input *)
Sha256Hex(s) == <<"sha256", s>>

(* main.py:29 *)
key_source(base_url, redirect_url) == base_url \o <<"|">> \o redirect_url

(* main.py:28-31 *)
visited_key(base_url, redirect_url) ==
    <<"visited:", Sha256Hex(key_source(base_url, redirect_url))>>

AllBases == {get_base_url(h) : h \in AllHeaders}
Keys == {visited_key(b, u) : b \in AllBases, u \in RedirectUrls}
NoKey == <<"visited:", <<"sha256", <<>>>>>>

----------------------------------------------------------------------------
(* Token codec: jwt.encode / jwt.decode as called at main.py:106 and 123 *)

NoPayload == [cb |-> None, sec |-> 0, url |-> None, exp |-> 0]

(* HMAC over the signing input (header segment "." payload segment) *)
HS(key, alg, payload) == [key |-> key, alg |-> alg, msg |-> payload]

NoMac == HS("", "", NoPayload)

(* base64url of the signature: the encoder leaves the unused low bits 0 *)
B64UrlEncodeSig(mac) == [mac |-> mac, slack |-> 0]

(* base64url decoding of the signature segment drops the unused low bits *)
B64UrlDecodeSig(sig) == sig.mac

(* main.py:106  jwt.encode(payload, SECRET_KEY, algorithm=ALGORITHM) *)
jwt_encode(payload, key, alg) ==
    [segs |-> 3, alg |-> alg, payload |-> payload,
     sig |-> B64UrlEncodeSig(HS(key, alg, payload))]

NoToken == [segs |-> 0, alg |-> "", payload |-> NoPayload,
            sig |-> [mac |-> NoMac, slack |-> 0]]

(* jwt.decode expiring a token only after its exp second has passed *)
jwt_decode_ExpStrict(token, key, algorithms, t) ==
    IF token.segs # 3
    THEN [exc |-> "DecodeError", payload |-> NoPayload]
    ELSE IF token.alg \notin algorithms
    THEN [exc |-> "InvalidAlgorithmError", payload |-> NoPayload]
    ELSE IF B64UrlDecodeSig(token.sig) # HS(key, token.alg, token.payload)
    THEN [exc |-> "InvalidSignatureError", payload |-> NoPayload]
    ELSE IF token.payload.exp < t
    THEN [exc |-> "ExpiredSignatureError", payload |-> NoPayload]
    ELSE [exc |-> "", payload |-> token.payload]

(* main.py:123  jwt.decode(token, SECRET_KEY, algorithms=[ALGORITHM]):
   structure, then algorithm, then signature, then the exp claim. *)
jwt_decode(token, key, algorithms, t) ==
    IF token.segs # 3
    THEN [exc |-> "DecodeError", payload |-> NoPayload]
    ELSE IF token.alg \notin algorithms
    THEN [exc |-> "InvalidAlgorithmError", payload |-> NoPayload]
    ELSE IF B64UrlDecodeSig(token.sig) # HS(key, token.alg, token.payload)
    THEN [exc |-> "InvalidSignatureError", payload |-> NoPayload]
    ELSE IF token.payload.exp <= t
    THEN [exc |-> "ExpiredSignatureError", payload |-> NoPayload]
    ELSE [exc |-> "", payload |-> token.payload]

(* validate_seconds with both comparisons off by one *)
validate_seconds_OffByOne(v) ==
    IF v < 0 THEN [ok |-> FALSE, msg |-> "Seconds must be positive"]
    ELSE IF v >= MaxSeconds
    THEN [ok |-> FALSE, msg |-> "Maximum delay is 3600 seconds (1 hour)"]
    ELSE [ok |-> TRUE, msg |-> ""]

(* main.py:51-57 *)
validate_seconds(v) ==
    IF v <= 0 THEN [ok |-> FALSE, msg |-> "Seconds must be positive"]
    ELSE IF v > MaxSeconds
    THEN [ok |-> FALSE, msg |-> "Maximum delay is 3600 seconds (1 hour)"]
    ELSE [ok |-> TRUE, msg |-> ""]

(* the payload with callback_url and redirect_url exchanged *)
LinkPayload_Swapped(link_data, t) ==
    [cb |-> link_data.redirect_url, sec |-> link_data.seconds,
     url |-> link_data.callback_url, exp |-> t + TokenLifetime]

(* main.py:99-104; str() of a validated HttpUrl is the URL text *)
LinkPayload(link_data, t) ==
    [cb |-> link_data.callback_url, sec |-> link_data.seconds,
     url |-> link_data.redirect_url, exp |-> t + TokenLifetime]

----------------------------------------------------------------------------
(* Tokens a visitor may present *)

IssuedTokens == {l.token : l \in links}

(* the same token text with other low bits in the last signature character *)
SlackMutations(tok) == {[tok EXCEPT !.sig.slack = s] : s \in {1, 2}}

(* a changed payload or header under the old signature, a MAC made with
   another key, a token cut to two segments *)
FieldMutations(tok) ==
    {[tok EXCEPT !.payload.url = u] : u \in RedirectUrls \ {tok.payload.url}}
    \cup {[tok EXCEPT !.payload.exp = tok.payload.exp + 1],
          [tok EXCEPT !.alg = "none"],
          [tok EXCEPT !.sig.mac.key = "k"],
          [tok EXCEPT !.segs = 2]}

TokensIssued == IssuedTokens
TokensAny ==
    IssuedTokens
    \cup UNION {SlackMutations(t) \cup FieldMutations(t) : t \in IssuedTokens}
    \cup {NoToken}

----------------------------------------------------------------------------
(* Redis commands, each atomic at the server *)

(* a membership test that never finds the member *)
SISMEMBER_Never(k, m) == FALSE

(* main.py:137 *)
SISMEMBER(k, m) == m \in store[k]

(* an SADD that does not add *)
SADD_Noop(k, m) == store

(* main.py:142 *)
SADD(k, m) == [store EXCEPT ![k] = @ \cup {m}]

(* main.py:143 : -2 no such key, -1 no expiry, else seconds left *)
TTL(k) ==
    IF store[k] = {} THEN -2
    ELSE IF expiry[k] = NoExpiry THEN -1
    ELSE expiry[k] - now

(* main.py:145 *)
EXPIRE(k, seconds) ==
    IF store[k] = {} THEN expiry ELSE [expiry EXCEPT ![k] = now + seconds]

----------------------------------------------------------------------------
(* State *)

IdleReq ==
    [pc |-> "idle", token |-> NoToken, state |-> NoState, base |-> None,
     payload |-> NoPayload, key |-> NoKey, already_visited |-> FALSE,
     status |-> 0, detail |-> "", location |-> None,
     scheduled |-> FALSE,
     \* history, read only by the properties
     issued |-> FALSE, past_exp |-> FALSE, client |-> FALSE, calls |-> 0,
     conc |-> {},
     epSis |-> 0, epAdd |-> 0, storeError |-> FALSE]

NoJob ==
    [st |-> "none", callback_url |-> None, state |-> NoState, delay |-> 0,
     fire_at |-> 0, result |-> 0, sends |-> 0, idle |-> 0,
     \* history: when add_task was called
     queued_at |-> 0]

NoCreated == [status |-> 0, body |-> [callback_url |-> None, seconds |-> 0,
                                      redirect_url |-> None, state |-> NoState],
              token |-> NoToken, links_before |-> 0]

InFlight(r) == reqs[r].pc \in {"sismember", "sadd", "ttl", "expire"}

Init ==
    /\ now = 0
    /\ ticks = 0
    /\ redis_client = "None"
    /\ store = [k \in Keys |-> {}]
    /\ expiry = [k \in Keys |-> NoExpiry]
    /\ purges = [k \in Keys |-> 0]
    /\ touched = [k \in Keys |-> 0]
    /\ links = {}
    /\ created = NoCreated
    /\ reqs = [r \in ReqIds |-> IdleReq]
    /\ jobs = [r \in ReqIds |-> NoJob]

----------------------------------------------------------------------------
(* main.py:34-37 *)
Startup ==
    /\ redis_client = "None"
    /\ redis_client' = "Redis"
    /\ UNCHANGED <<now, ticks, store, expiry, purges, touched, links, created, reqs, jobs>>

(* Time passes; Redis drops the keys whose expiry has been reached. *)
Tick(d) ==
    /\ ticks < MaxTicks
    /\ ticks' = ticks + 1
    /\ now' = now + d
    /\ LET dead == {k \in Keys : expiry[k] # NoExpiry /\ expiry[k] <= now + d}
       IN /\ store' = [k \in Keys |-> IF k \in dead THEN {} ELSE store[k]]
          /\ expiry' = [k \in Keys |-> IF k \in dead THEN NoExpiry ELSE expiry[k]]
          /\ purges' = [k \in Keys |-> IF k \in dead THEN purges[k] + 1 ELSE purges[k]]
    /\ UNCHANGED <<redis_client, touched, links, created, reqs, jobs>>

(* main.py:95-109, with the validation of the body (45-57) in front *)
CreateLink(bodies, headers, limit) ==
    \E body \in bodies, request \in headers :
        LET v == validate_seconds(body.seconds)
            token == jwt_encode(LinkPayload(body, now), SECRET_KEY, ALGORITHM)
            link == <<get_base_url(request), "/redirect/", token, "?state=", body.state>>
        IN /\ v.ok => Cardinality(links) < limit
           /\ IF v.ok
              THEN /\ links' = links \cup {[token |-> token, body |-> body,
                                            at |-> now, link |-> link]}
                   /\ created' = [status |-> 201, body |-> body, token |-> token,
                                  links_before |-> Cardinality(links)]
              ELSE /\ links' = links
                   /\ created' = [status |-> 422, body |-> body, token |-> NoToken,
                                  links_before |-> Cardinality(links)]
           /\ UNCHANGED <<now, ticks, redis_client, store, expiry, purges, touched, reqs, jobs>>

(* the handler without its check of the state parameter *)
RedirectEntry_NoStateCheck(token, state, request) ==
    LET d == jwt_decode(token, SECRET_KEY, {ALGORITHM}, now)
        p == d.payload
        base_url == get_base_url(request)
        stop(code, text) ==
            [pc |-> "done", status |-> code, detail |-> text,
             payload |-> NoPayload, base |-> None, key |-> NoKey]
    IN IF d.exc = "ExpiredSignatureError" THEN stop(400, "Link has expired")
       ELSE IF d.exc # "" THEN stop(400, "Invalid link")
       ELSE IF p.cb = None \/ p.sec = 0 \/ p.url = None
       THEN stop(400, "Invalid link parameters")
       ELSE IF redis_client = "None" THEN stop(503, "Redis is not available")
       ELSE [pc |-> "sismember", status |-> 0, detail |-> "",
             payload |-> p, base |-> base_url,
             key |-> visited_key(base_url, p.url)]

(* main.py:119-136: the handler up to its first await *)
RedirectEntry(token, state, request) ==
    LET d == jwt_decode(token, SECRET_KEY, {ALGORITHM}, now)
        p == d.payload
        base_url == get_base_url(request)
        stop(code, text) ==
            [pc |-> "done", status |-> code, detail |-> text,
             payload |-> NoPayload, base |-> None, key |-> NoKey]
    IN IF state = NoState THEN stop(400, "State is required")
       ELSE IF d.exc = "ExpiredSignatureError" THEN stop(400, "Link has expired")
       ELSE IF d.exc # "" THEN stop(400, "Invalid link")
       ELSE IF p.cb = None \/ p.sec = 0 \/ p.url = None
       THEN stop(400, "Invalid link parameters")
       ELSE IF redis_client = "None" THEN stop(503, "Redis is not available")
       ELSE [pc |-> "sismember", status |-> 0, detail |-> "",
             payload |-> p, base |-> base_url,
             key |-> visited_key(base_url, p.url)]

(* GET /redirect/{token}: main.py:112-136.  With `sequential` a request
   starts only when no other request is being handled. *)
Redirect_Begin(tokens, states, headers, sequential, limit) ==
    \E r \in 1..limit :
        /\ reqs[r].pc = "idle"
        /\ \A q \in ReqIds : q < r => reqs[q].pc # "idle"
        /\ sequential => \A q \in ReqIds : ~InFlight(q)
        /\ \E token \in tokens, state \in states, request \in headers :
              LET e == RedirectEntry(token, state, request)
              IN reqs' = [reqs EXCEPT ![r] =
                    [IdleReq EXCEPT !.pc = e.pc, !.token = token, !.state = state,
                                    !.base = e.base, !.payload = e.payload,
                                    !.key = e.key, !.status = e.status,
                                    !.detail = e.detail,
                                    !.issued = token \in IssuedTokens,
                                    !.past_exp = now >= token.payload.exp,
                                    !.client = redis_client # "None",
                                    !.conc = {q \in ReqIds : InFlight(q)}]]
        /\ UNCHANGED <<now, ticks, redis_client, store, expiry, purges, touched, links, created, jobs>>

(* schedule_callback awaited by the handler itself instead of add_task *)
Scheduled_Awaited(r) ==
    [st |-> "done", callback_url |-> reqs[r].payload.cb, state |-> reqs[r].state,
     delay |-> reqs[r].payload.sec, fire_at |-> now + reqs[r].payload.sec,
     result |-> 200, sends |-> 1, idle |-> 0, queued_at |-> now]

(* main.py:147-154: add_task(schedule_callback, ...) and the redirect *)
Scheduled(r) ==
    [st |-> "queued", callback_url |-> reqs[r].payload.cb, state |-> reqs[r].state,
     delay |-> reqs[r].payload.sec, fire_at |-> 0, result |-> 0, sends |-> 0,
     idle |-> 0, queued_at |-> now]

(* a redirect to the callback_url instead of the redirect_url *)
RedirectResponse_ToCallback(req) ==
    [req EXCEPT !.pc = "done", !.status = 307, !.location = req.payload.cb]

(* main.py:140 and 154: RedirectResponse(url=redirect_url) *)
RedirectResponse(req) ==
    [req EXCEPT !.pc = "done", !.status = 307, !.location = req.payload.url]

(* main.py:137-140 *)
Redirect_Sismember(r) ==
    /\ reqs[r].pc = "sismember"
    /\ LET already_visited == SISMEMBER(reqs[r].key, reqs[r].state)
       IN reqs' = [reqs EXCEPT ![r] =
             IF already_visited
             THEN [RedirectResponse(@) EXCEPT !.already_visited = TRUE,
                            !.calls = @ + 1, !.epSis = purges[reqs[r].key]]
             ELSE [@ EXCEPT !.pc = "sadd", !.calls = @ + 1,
                            !.epSis = purges[reqs[r].key]]]
    /\ UNCHANGED <<now, ticks, redis_client, store, expiry, purges, touched, links, created, jobs>>

(* main.py:142 *)
Redirect_Sadd(r) ==
    /\ reqs[r].pc = "sadd"
    /\ store' = SADD(reqs[r].key, reqs[r].state)
    /\ touched' = [touched EXCEPT ![reqs[r].key] = now]
    /\ reqs' = [reqs EXCEPT ![r].pc = "ttl", ![r].calls = @ + 1,
                            ![r].epAdd = purges[reqs[r].key]]
    /\ UNCHANGED <<now, ticks, redis_client, expiry, purges, links, created, jobs>>

(* main.py:143-144, and 147-154 when no expire call is due *)
Redirect_Ttl(r) ==
    /\ reqs[r].pc = "ttl"
    /\ LET ttl == TTL(reqs[r].key)
       IN IF ttl = -1
          THEN /\ reqs' = [reqs EXCEPT ![r].pc = "expire", ![r].calls = @ + 1]
               /\ jobs' = jobs
          ELSE /\ reqs' = [reqs EXCEPT ![r] =
                                [RedirectResponse(@) EXCEPT !.calls = @ + 1,
                                                            !.scheduled = TRUE]]
               /\ jobs' = [jobs EXCEPT ![r] = Scheduled(r)]
    /\ UNCHANGED <<now, ticks, redis_client, store, expiry, purges, touched, links, created>>

(* main.py:145-154 *)
Redirect_Expire(r) ==
    /\ reqs[r].pc = "expire"
    /\ expiry' = EXPIRE(reqs[r].key, VISITED_TTL_SECONDS)
    /\ touched' = [touched EXCEPT ![reqs[r].key] = now]
    /\ reqs' = [reqs EXCEPT ![r] =
                    [RedirectResponse(@) EXCEPT !.calls = @ + 1, !.scheduled = TRUE]]
    /\ jobs' = [jobs EXCEPT ![r] = Scheduled(r)]
    /\ UNCHANGED <<now, ticks, redis_client, store, purges, links, created>>

(* The awaited Redis call raises (connection refused, timeout): no except
   clause of main.py:156-159 matches, the framework answers 500. *)
Redirect_StoreError(r) ==
    /\ InFlight(r)
    /\ reqs' = [reqs EXCEPT ![r].pc = "done", ![r].status = 500,
                            ![r].detail = "Internal Server Error",
                            ![r].storeError = TRUE]
    /\ UNCHANGED <<now, ticks, redis_client, store, expiry, purges, touched, links, created, jobs>>

(* main.py:162-163: the background task starts after the response and sleeps *)
Job_Start(r) ==
    /\ jobs[r].st = "queued"
    /\ jobs' = [jobs EXCEPT ![r].st = "sleeping", ![r].fire_at = now + jobs[r].delay]
    /\ UNCHANGED <<now, ticks, redis_client, store, expiry, purges, touched, links, created, reqs>>

(* The sleep of a background task runs out: time passes until its timer is
   due; Redis drops the keys whose expiry has been reached meanwhile. *)
Sleep_Elapse(r) ==
    /\ jobs[r].st = "sleeping"
    /\ now < jobs[r].fire_at
    /\ now' = jobs[r].fire_at
    /\ LET dead == {k \in Keys : expiry[k] # NoExpiry /\ expiry[k] <= jobs[r].fire_at}
       IN /\ store' = [k \in Keys |-> IF k \in dead THEN {} ELSE store[k]]
          /\ expiry' = [k \in Keys |-> IF k \in dead THEN NoExpiry ELSE expiry[k]]
          /\ purges' = [k \in Keys |-> IF k \in dead THEN purges[k] + 1 ELSE purges[k]]
    /\ UNCHANGED <<ticks, redis_client, touched, links, created, reqs, jobs>>

(* send_callback entered without waiting for the sleep *)
Job_Fire_Early(r) ==
    /\ jobs[r].st = "sleeping"
    /\ jobs' = [jobs EXCEPT ![r].st = "posting", ![r].sends = @ + 1, ![r].idle = 0]
    /\ UNCHANGED <<now, ticks, redis_client, store, expiry, purges, touched, links, created, reqs>>

(* main.py:164 and 82-87: the sleep is over, send_callback is entered and
   the POST is issued *)
Job_Fire(r) ==
    /\ jobs[r].st = "sleeping"
    /\ now >= jobs[r].fire_at
    /\ jobs' = [jobs EXCEPT ![r].st = "posting", ![r].sends = @ + 1, ![r].idle = 0]
    /\ UNCHANGED <<now, ticks, redis_client, store, expiry, purges, touched, links, created, reqs>>

(* main.py:88-92: send_callback returns the status code, or None (0) after
   any exception *)
send_callback(r, outcome) ==
    [jobs[r] EXCEPT !.st = "done", !.result = outcome]

(* main.py:84-92: the response has arrived in full, or the request failed *)
Post_Return(r) ==
    /\ jobs[r].st = "posting"
    /\ \E outcome \in {200, 0} : jobs' = [jobs EXCEPT ![r] = send_callback(r, outcome)]
    /\ UNCHANGED <<now, ticks, redis_client, store, expiry, purges, touched, links, created, reqs>>

(* main.py:82-84: httpx.AsyncClient() is built without a timeout argument, so
   the library default applies: 5 seconds for each network operation (connect,
   write, read of the next chunk), no limit on the request as a whole.  `idle`
   counts the seconds since the endpoint last sent anything. *)
ReadTimeout == 5

(* a second passes without a byte from the endpoint *)
Post_Wait(r) ==
    /\ jobs[r].st = "posting"
    /\ jobs[r].idle < ReadTimeout
    /\ jobs' = [jobs EXCEPT ![r].idle = @ + 1]
    /\ UNCHANGED <<now, ticks, redis_client, store, expiry, purges, touched, links, created, reqs>>

(* the endpoint sends another piece of a response that is not yet complete:
   the read timeout starts again *)
Post_Chunk(r) ==
    /\ jobs[r].st = "posting"
    /\ 0 < jobs[r].idle /\ jobs[r].idle < ReadTimeout
    /\ jobs' = [jobs EXCEPT ![r].idle = 0]
    /\ UNCHANGED <<now, ticks, redis_client, store, expiry, purges, touched, links, created, reqs>>

(* main.py:90-92: httpx.ReadTimeout is raised and caught *)
Post_Timeout(r) ==
    /\ jobs[r].st = "posting"
    /\ jobs[r].idle = ReadTimeout
    /\ jobs' = [jobs EXCEPT ![r] = send_callback(r, 0)]
    /\ UNCHANGED <<now, ticks, redis_client, store, expiry, purges, touched, links, created, reqs>>

----------------------------------------------------------------------------
(* Specifications *)

Handler ==
    \/ \E r \in ReqIds : Redirect_Sismember(r)
    \/ \E r \in ReqIds : Redirect_Sadd(r)
    \/ \E r \in ReqIds : Redirect_Ttl(r)
    \/ \E r \in ReqIds : Redirect_Expire(r)
    \/ \E r \in ReqIds : Redirect_StoreError(r)

Scheduler ==
    \/ \E r \in ReqIds : Job_Start(r)
    \/ \E r \in ReqIds : Job_Fire(r)
    \/ \E r \in ReqIds : Post_Return(r)

BodiesOne == Bodies({cb1}, {1}, {d1}, {"s1"})
BodiesAny == Bodies({cb1}, SecondsInputs, {d1}, {"s1"})
BodiesValid ==
    {[callback_url |-> c, seconds |-> n, state |-> "s1",
      redirect_url |-> IF c = cb1 THEN d1 ELSE d2] : c \in Callbacks, n \in {1, MaxSeconds}}

(* Concurrent redemptions of links to one destination from one origin *)
Next ==
    \/ Startup
    \/ \E d \in TickSteps : Tick(d)
    \/ CreateLink(BodiesOne, {HdrDirect}, MaxLinks)
    \/ Redirect_Begin(TokensIssued, States, {HdrDirect}, FALSE, MaxReq)
    \/ Handler

Spec == Init /\ [][Next]_vars

(* Redemptions handled one after another, with their background tasks *)
NextSeq ==
    \/ Startup
    \/ \E d \in TickSteps : Tick(d)
    \/ CreateLink(BodiesOne, {HdrDirect}, MaxLinks)
    \/ Redirect_Begin(TokensIssued, States, {HdrDirect}, TRUE, MaxReq)
    \/ Handler

SpecSeq == Init /\ [][NextSeq]_vars

(* Redemptions of one link by one visitor, one after another, with their
   background tasks *)
NextJobs ==
    \/ Startup
    \/ \E d \in TickSteps : Tick(d)
    \/ CreateLink(BodiesOne, {HdrDirect}, MaxLinks)
    \/ Redirect_Begin(TokensIssued, {"s1"}, {HdrDirect}, TRUE, MaxReq)
    \/ Handler
    \/ Scheduler

SpecJobs == Init /\ [][NextJobs]_vars

(* One redemption at a time, with any token derived from the issued one *)
NextCodec ==
    \/ Startup
    \/ \E d \in TickSteps : Tick(d)
    \/ CreateLink(BodiesOne, {HdrDirect}, MaxLinks)
    \/ Redirect_Begin(TokensAny, {"s1", NoState}, {HdrDirect}, TRUE, MaxSolo)
    \/ Handler

SpecCodec == Init /\ [][NextCodec]_vars

(* One redemption at a time of links created with different bodies *)
NextRound ==
    \/ Startup
    \/ \E d \in TickSteps : Tick(d)
    \/ CreateLink(BodiesValid, {HdrDirect}, MaxLinks)
    \/ Redirect_Begin(TokensIssued, {"s1"}, {HdrDirect}, TRUE, MaxSolo)
    \/ Handler

SpecRound == Init /\ [][NextRound]_vars

(* Creation alone, with any body *)
NextCreate ==
    \/ \E d \in TickSteps : Tick(d)
    \/ CreateLink(BodiesAny, AllHeaders, MaxLinks)

SpecCreate == Init /\ [][NextCreate]_vars

(* Redemptions one after another with any token derived from the issued one *)
NextOracle ==
    \/ Startup
    \/ \E d \in TickSteps : Tick(d)
    \/ CreateLink(BodiesOne, {HdrDirect}, MaxLinks)
    \/ Redirect_Begin(TokensAny, {"s1"}, {HdrDirect}, TRUE, MaxReq)
    \/ Handler

SpecOracle == Init /\ [][NextOracle]_vars

(* Redemptions one after another of a link from two origins *)
NextOrigins ==
    \/ Startup
    \/ \E d \in TickSteps : Tick(d)
    \/ CreateLink(BodiesOne, {HdrDirect}, MaxLinks)
    \/ Redirect_Begin(TokensIssued, {"s1"}, {HdrDirect, HdrProxied}, TRUE, MaxReq)
    \/ Handler

SpecOrigins == Init /\ [][NextOrigins]_vars

(* Redemptions one after another of several links to one destination, the
   clock moving by whole retention windows *)
BodiesSameDest ==
    {[callback_url |-> cb1, seconds |-> 1, redirect_url |-> d1, state |-> "s1"],
     [callback_url |-> cb2, seconds |-> MaxSeconds, redirect_url |-> d1, state |-> "s1"]}

NextPair ==
    \/ Startup
    \/ Tick(VISITED_TTL_SECONDS)
    \/ CreateLink(BodiesSameDest, {HdrDirect}, MaxPair)
    \/ Redirect_Begin(TokensIssued, {"s1"}, {HdrDirect}, TRUE, MaxReq)
    \/ Handler

SpecPair == Init /\ [][NextPair]_vars

(* Redemptions one after another of links to two destinations, from two
   origins *)
BodiesTwoDest ==
    {[callback_url |-> cb1, seconds |-> 1, redirect_url |-> u, state |-> "s1"] :
        u \in RedirectUrls}

NextKeys ==
    \/ Startup
    \/ CreateLink(BodiesTwoDest, {HdrDirect}, MaxPair)
    \/ Redirect_Begin(TokensIssued, {"s1"}, {HdrDirect, HdrProxied}, TRUE, MaxReq)
    \/ Handler

SpecKeys == Init /\ [][NextKeys]_vars

(* Redemptions one after another and their background tasks, with the
   scheduling an event loop gives them: a ready task runs, time passes, a
   timer that is due fires.  The callback endpoint is not under that
   scheduling: it answers, fails or keeps sending as it likes. *)
NextLive ==
    \/ Startup
    \/ CreateLink(BodiesSameDest, {HdrDirect}, MaxLinks)
    \/ Redirect_Begin(TokensIssued, States, {HdrDirect}, TRUE, MaxSolo)
    \/ Handler
    \/ Scheduler
    \/ \E r \in ReqIds : Sleep_Elapse(r)
    \/ \E r \in ReqIds : Post_Wait(r)
    \/ \E r \in ReqIds : Post_Chunk(r)
    \/ \E r \in ReqIds : Post_Timeout(r)

LoopFairness ==
    \A r \in ReqIds :
        /\ WF_vars(Job_Start(r))
        /\ WF_vars(Sleep_Elapse(r))
        /\ WF_vars(Job_Fire(r))
        /\ WF_vars(Post_Wait(r))
        /\ WF_vars(Post_Timeout(r))

SpecLive == Init /\ [][NextLive]_vars /\ LoopFairness

----------------------------------------------------------------------------
(* Properties *)

Begun(r) == reqs[r].pc # "idle"
Done(r) == reqs[r].pc = "done"
Redirected(r) == Done(r) /\ reqs[r].status = 307
SameRecord(i, j) ==
    reqs[i].base = reqs[j].base /\ reqs[i].payload.url = reqs[j].payload.url
SameVisit(i, j) == SameRecord(i, j) /\ reqs[i].state = reqs[j].state
Added(r) == reqs[r].calls >= 2
Concurrent(i, j) == i \in reqs[j].conc \/ j \in reqs[i].conc
ValidAtEntry(r) == reqs[r].issued /\ ~reqs[r].past_exp /\ reqs[r].state # NoState

(* C1 (as claimed): of the concurrent redemptions of one (origin, redirect_url,
   state) that add to the same life of the visit record, at most one
   schedules a notification. *)
C1_OneFirstVisit ==
    \A i, j \in ReqIds :
        (i # j /\ Begun(i) /\ Begun(j) /\ Concurrent(i, j) /\ SameVisit(i, j)
           /\ reqs[i].epAdd = reqs[j].epAdd)
        => ~(reqs[i].scheduled /\ reqs[j].scheduled)

(* An earlier redemption has added the state of j to the record life that
   j's SISMEMBER looked at. *)
RecordedBefore(j) ==
    \E k \in ReqIds :
        k < j /\ Added(k) /\ SameVisit(k, j) /\ reqs[k].epAdd = reqs[j].epSis

(* C2: redemptions run one after another.  Of two redirected redemptions of
   the same (origin, redirect_url): with the same state and the second inside
   the life of the record the first added to, the first (if its state was
   not recorded before) schedules a notification and the second does not;
   with different states, each one whose state was not recorded before
   schedules its own notification. *)
C2_SequentialVisits ==
    \A i, j \in ReqIds :
        (i < j /\ Redirected(i) /\ Redirected(j) /\ SameRecord(i, j)
           /\ ~RecordedBefore(i))
        => /\ reqs[i].scheduled /\ jobs[i].st # "none"
           /\ (reqs[i].state = reqs[j].state /\ reqs[j].epSis = reqs[i].epAdd)
                 => (~reqs[j].scheduled /\ jobs[j].st = "none")
           /\ (reqs[i].state # reqs[j].state /\ ~RecordedBefore(j))
                 => (reqs[j].scheduled /\ jobs[j].st # "none")

C2_Witness ==
    \E i, j \in ReqIds :
        /\ i < j /\ Redirected(i) /\ Redirected(j) /\ SameVisit(i, j)
        /\ reqs[i].scheduled /\ ~reqs[j].scheduled
        /\ reqs[j].epSis = reqs[i].epAdd

(* C3 (as claimed): every finished redemption that carried a state and a
   valid token was answered with a redirect to the token's redirect_url. *)
C3_AlwaysRedirected ==
    \A r \in ReqIds :
        (Done(r) /\ ValidAtEntry(r))
        => (reqs[r].status = 307 /\ reqs[r].location = reqs[r].token.payload.url)

(* C3 (amended): ... provided the Redis client existed and none of the
   request's store calls raised; whatever became of the notification. *)
C3_RedirectedWhenStoreAnswers ==
    \A r \in ReqIds :
        (Done(r) /\ ValidAtEntry(r) /\ reqs[r].client /\ ~reqs[r].storeError)
        => (reqs[r].status = 307 /\ reqs[r].location = reqs[r].token.payload.url)

C3_Witness ==
    \E r \in ReqIds :
        /\ Redirected(r) /\ ValidAtEntry(r) /\ reqs[r].scheduled
        /\ jobs[r].st = "done" /\ jobs[r].result = 0

(* C4 (as claimed): a redemption that could not reach the dedup backend
   (no client, or a store call raised) is answered 503 and schedules
   nothing. *)
BackendUnreachable(r) ==
    Begun(r) /\ ValidAtEntry(r) /\ (~reqs[r].client \/ reqs[r].storeError)

C4_Unavailable503 ==
    \A r \in ReqIds :
        BackendUnreachable(r)
        => (reqs[r].status = 503 /\ ~reqs[r].scheduled /\ jobs[r].st = "none")

(* C5: a redemption of an issued token at now >= exp (exp = issue time + 30
   days) ends at once with 400, no redirect, no store call, nothing
   scheduled; at now < exp it is not answered "Link has expired". *)
C5_ExpiredRejected ==
    /\ \A l \in links : l.token.payload.exp = l.at + 30 * 24 * 60 * 60
    /\ \A r \in ReqIds :
          (Begun(r) /\ reqs[r].issued)
          => /\ reqs[r].past_exp
                  => /\ Done(r) /\ reqs[r].status = 400
                     /\ reqs[r].location = None /\ reqs[r].calls = 0
                     /\ ~reqs[r].scheduled /\ jobs[r].st = "none"
             /\ ~reqs[r].past_exp => reqs[r].detail # "Link has expired"

C5_Witness ==
    \E r \in ReqIds :
        /\ Begun(r) /\ reqs[r].issued /\ reqs[r].past_exp
        /\ reqs[r].state # NoState
        /\ now = reqs[r].token.payload.exp
        /\ reqs[r].status = 400 /\ reqs[r].detail = "Link has expired"

(* C6 (as claimed): a token that is not one of the issued tokens is rejected
   at once with 400: no store call, no redirect, nothing scheduled (stated
   for a server whose Redis client exists). *)
C6_NotIssuedRejected ==
    \A r \in ReqIds :
        (Begun(r) /\ ~reqs[r].issued /\ reqs[r].client)
        => /\ Done(r) /\ reqs[r].status = 400 /\ reqs[r].location = None
           /\ reqs[r].calls = 0 /\ ~reqs[r].scheduled /\ jobs[r].st = "none"

(* C7: before its expiry an issued token decodes to the callback_url,
   seconds and redirect_url of the body it was created from; a redemption of
   it redirects to that redirect_url and, on a first visit, schedules a
   notification to that callback_url with that delay. *)
C7_RoundTrip ==
    /\ \A l \in links :
          now < l.at + TokenLifetime
          => LET d == jwt_decode(l.token, SECRET_KEY, {ALGORITHM}, now)
             IN /\ d.exc = ""
                /\ d.payload.cb = l.body.callback_url
                /\ d.payload.sec = l.body.seconds
                /\ d.payload.url = l.body.redirect_url
    /\ \A r \in ReqIds : \A l \in links :
          (Begun(r) /\ reqs[r].token = l.token)
          => /\ Redirected(r) => reqs[r].location = l.body.redirect_url
             /\ reqs[r].scheduled
                  => /\ jobs[r].callback_url = l.body.callback_url
                     /\ jobs[r].delay = l.body.seconds
                     /\ jobs[r].state = reqs[r].state

C7_Witness ==
    \E r \in ReqIds : \E l \in links :
        /\ reqs[r].token = l.token /\ Redirected(r) /\ reqs[r].scheduled
        /\ l.body.seconds = 3600 /\ jobs[r].delay = 3600
        /\ jobs[r].callback_url = cb2 /\ reqs[r].location = d2

(* C8: POST /create-link answers 201 with a token exactly when
   1 <= seconds <= 3600; otherwise 422, and no token is issued; every
   issued token carries a delay in [1, 3600]. *)
C8_SecondsRange ==
    /\ created.status \in {0, 201, 422}
    /\ created.status # 0
          => /\ created.status = 201
                  <=> (1 <= created.body.seconds /\ created.body.seconds <= 3600)
             /\ created.status = 201
                  => (created.token \in IssuedTokens
                        /\ created.token.payload.sec = created.body.seconds)
             /\ created.status = 422
                  => (created.token = NoToken
                        /\ Cardinality(links) = created.links_before)
    /\ \A l \in links :
          1 <= l.token.payload.sec /\ l.token.payload.sec <= 3600

C8_Witness ==
    /\ created.status = 422 /\ created.body.seconds = 3601
    /\ \E l \in links : l.body.seconds = 3600

(* C9 (as claimed): once a visit record has an expiry, no step changes that
   expiry while the record lives. *)
C9_ExpiryAnchored ==
    [][\A k \in Keys :
          (expiry[k] # NoExpiry /\ store'[k] # {}) => expiry'[k] = expiry[k]]_vars

(* C10 (as claimed): a visit record that no request is working on is gone
   once the retention window has passed since it was last touched. *)
Working(k) == \E r \in ReqIds : reqs[r].key = k /\ reqs[r].pc \in {"ttl", "expire"}

C10_AbsentAfterRetention ==
    \A k \in Keys :
        (store[k] # {} /\ ~Working(k)) => now < touched[k] + VISITED_TTL_SECONDS

(* C11: every scheduled job carries the callback_url, delay and state of its
   redemption; it enters the sender exactly once, not before its delay has
   passed since it was scheduled, and (the event loop running) eventually;
   a failed delivery (result None) ends the job like a delivered one, leaves
   the answered request as it was, and a finished job never changes again. *)
C11_SendOnce ==
    /\ [](\A r \in ReqIds :
            jobs[r].st # "none"
            => /\ reqs[r].scheduled
               /\ jobs[r].callback_url = reqs[r].payload.cb
               /\ jobs[r].state = reqs[r].state
               /\ jobs[r].delay = reqs[r].payload.sec
               /\ jobs[r].sends <= 1
               /\ jobs[r].sends = 1 <=> jobs[r].st \in {"posting", "done"}
               /\ jobs[r].sends = 1 => now >= jobs[r].queued_at + jobs[r].delay
               /\ jobs[r].st = "done" => Redirected(r))
    /\ [][\A r \in ReqIds : jobs[r].st = "done" => jobs'[r] = jobs[r]]_vars
    /\ \A r \in ReqIds : (jobs[r].st = "queued") ~> (jobs[r].sends = 1)

C11_Witness ==
    \E r \in ReqIds :
        /\ jobs[r].st = "done" /\ jobs[r].result = 0 /\ jobs[r].sends = 1
        /\ now = jobs[r].queued_at + jobs[r].delay

(* C12: the handler returns its redirect in the step that queues the job,
   at the time of the request; the job starts to sleep, and later sends, only
   for a request that has already been answered. *)
C12_ResponseFirst ==
    /\ [](\A r \in ReqIds :
            jobs[r].st # "none" => (Redirected(r) /\ reqs[r].scheduled))
    /\ [][\A r \in ReqIds :
            (reqs[r].pc # "done" /\ reqs'[r].pc = "done" /\ reqs'[r].scheduled)
            => (jobs'[r].st = "queued" /\ jobs'[r].sends = 0 /\ now' = now)]_vars
    /\ [][\A r \in ReqIds :
            (jobs[r].st = "queued" /\ jobs'[r].st # "queued")
            => (jobs'[r].st = "sleeping" /\ jobs'[r].fire_at = now + jobs[r].delay
                  /\ reqs'[r] = reqs[r])]_vars

C12_Witness ==
    \E r \in ReqIds :
        /\ Redirected(r) /\ reqs[r].scheduled
        /\ jobs[r].st = "sleeping" /\ now < jobs[r].fire_at

(* C13 (as claimed): of the redemptions, handled one after another, of one
   (redirect_url, state) whose visit records are all still alive, whatever
   their links and origins, at most one schedules a notification. *)
RecordAlive(r) == reqs[r].key # NoKey /\ purges[reqs[r].key] = reqs[r].epAdd

C13_OncePerDestinationState ==
    \A i, j \in ReqIds :
        (i # j /\ reqs[i].payload.url = reqs[j].payload.url
           /\ reqs[i].state = reqs[j].state
           /\ RecordAlive(i) /\ RecordAlive(j))
        => ~(reqs[i].scheduled /\ reqs[j].scheduled)

(* C13 (amended): ... of one (origin base URL, redirect_url, state), within
   one life of its visit record, whatever their links, at most one schedules
   a notification. *)
C13_OncePerOriginDestinationState ==
    \A i, j \in ReqIds :
        (i # j /\ SameVisit(i, j) /\ reqs[i].epAdd = reqs[j].epAdd)
        => ~(reqs[i].scheduled /\ reqs[j].scheduled)

C13_Witness ==
    \E i, j \in ReqIds :
        /\ i < j /\ SameVisit(i, j) /\ reqs[i].base = get_base_url(HdrProxied)
        /\ reqs[i].scheduled /\ Redirected(j) /\ reqs[j].already_visited
        /\ reqs[j].epSis = reqs[i].epAdd

(* C16 (as claimed): two redemptions that differ in the origin base URL or in
   the redirect_url never have the same visit key. *)
C16_KeyInjective ==
    \A i, j \in ReqIds :
        (reqs[i].key # NoKey /\ reqs[j].key # NoKey
           /\ (reqs[i].base # reqs[j].base \/ reqs[i].payload.url # reqs[j].payload.url))
        => reqs[i].key # reqs[j].key

(* C20: redemptions run one after another.  After a redirected redemption
   that found or put state s in the visit record of (origin, redirect_url), a
   redemption of another link with the same origin, redirect_url and s that
   looks at the same life of that record, and whose store call succeeds, is
   redirected to the redirect_url and schedules nothing: no job for that
   link's callback_url exists. *)
VisitLife(r) == IF Added(r) THEN reqs[r].epAdd ELSE reqs[r].epSis

C20_LinkIndependent ==
    \A i, j \in ReqIds :
        (i < j /\ Redirected(i) /\ Done(j) /\ ~reqs[j].storeError
           /\ reqs[i].token # reqs[j].token /\ SameVisit(i, j)
           /\ reqs[j].epSis = VisitLife(i))
        => /\ Redirected(j) /\ reqs[j].location = reqs[j].token.payload.url
           /\ ~reqs[j].scheduled /\ jobs[j].st = "none"

C20_Witness ==
    \E i, j \in ReqIds :
        /\ i < j /\ Redirected(i) /\ reqs[i].scheduled /\ SameVisit(i, j)
        /\ reqs[i].payload.cb # reqs[j].payload.cb
        /\ reqs[i].payload.sec # reqs[j].payload.sec
        /\ Redirected(j) /\ ~reqs[j].scheduled /\ jobs[j].st = "none"

(* C14 (as claimed): a redemption rejected because its token has expired and
   a redemption rejected because its token is not an issued one get the same
   status and the same detail. *)
ExpiredRejected(r) ==
    Done(r) /\ reqs[r].issued /\ reqs[r].past_exp /\ reqs[r].status = 400
NotIssuedRejected(r) ==
    Done(r) /\ ~reqs[r].issued /\ ~reqs[r].past_exp /\ reqs[r].status = 400

C14_SameRejection ==
    \A i, j \in ReqIds :
        (ExpiredRejected(i) /\ NotIssuedRejected(j))
        => (reqs[i].status = reqs[j].status /\ reqs[i].detail = reqs[j].detail)

(* C15: a redemption without a state is answered 400 whatever its token; it
   makes no store call, has no redirect and no job, and the step that
   answers it leaves the store and the jobs as they were. *)
C15_StateRequired ==
    /\ [](\A r \in ReqIds :
            (Begun(r) /\ reqs[r].state = NoState)
            => /\ Done(r) /\ reqs[r].status = 400 /\ reqs[r].location = None
               /\ reqs[r].calls = 0 /\ ~reqs[r].scheduled /\ jobs[r].st = "none")
    /\ [][\A r \in ReqIds :
            (reqs[r].pc = "idle" /\ reqs'[r].pc # "idle" /\ reqs'[r].state = NoState)
            => (store' = store /\ expiry' = expiry /\ jobs' = jobs)]_vars

C15_Witness ==
    \E r \in ReqIds :
        /\ Done(r) /\ reqs[r].state = NoState /\ reqs[r].status = 400
        /\ reqs[r].issued /\ ~reqs[r].past_exp /\ reqs[r].client

(* C17 (as claimed): a finished redemption whose SADD put its state into the
   visit record has scheduled its notification and returned the redirect. *)
C17_RecordedOnlyIfScheduled ==
    \A r \in ReqIds :
        (Done(r) /\ Added(r) /\ purges[reqs[r].key] = reqs[r].epAdd
           /\ reqs[r].state \in store[reqs[r].key])
        => (reqs[r].scheduled /\ jobs[r].st # "none" /\ Redirected(r))

(* C18 (as claimed): every POST that send_callback issues comes to an end,
   with a status code or with None. *)
C18_DeliveryTerminates ==
    \A r \in ReqIds : (jobs[r].st = "posting") ~> (jobs[r].st = "done")

(* C19 (as claimed): when no redemption is in progress, every non-empty
   visit record has an expiry. *)
C19_RecordsHaveExpiry ==
    (\A r \in ReqIds : ~InFlight(r))
    => \A k \in Keys : store[k] # {} => expiry[k] # NoExpiry

====
